---- MODULE Spec2Model ----
(***************************************************************************)
(* Model of the Open Buildings tile service of gee-integrator-api:         *)
(* app/api/buildings.py (get_open_buildings_png and its helpers),          *)
(* app/tile.py (tile2goehashBBOX), app/utils/capabilities.py and           *)
(* app/middleware/exception_handler.py; and of the geocell codec of        *)
(* app/tile.py (pgh.encode, _encode_i2c, _decode_c2i, _int_to_float_hex,  *)
(* to_bbox) run on its own under GeoSpec; of the cache keys as strings     *)
(* under KeySpec; of _get_key of app/middleware/sso_keycloack.py under     *)
(* AuthSpec; and of the role check of app/auth under RoleSpec.             *)
(*                                                                         *)
(* The handler is an `async def` run by one event loop.  valkey.get/set    *)
(* and the Earth Engine calls are synchronous calls, so the handler keeps  *)
(* the event loop from its first line up to `await _fetch_png(...)`; the   *)
(* variable `loop` names the request that holds the loop (0: nobody).      *)
(***************************************************************************)
EXTENDS Integers, Sequences, FiniteSets, TLC

VARIABLES
    valkey,     \* app.state.valkey: the key-value store, key -> stored value
    now,        \* datetime.now(), in ticks
    loop,       \* the request running on the event loop, 0 when it is free
    req,        \* per request slot: position and locals of get_open_buildings_png
    started,    \* number of requests received so far
    geo,        \* a run of the geocell codec of app/tile.py: its input and results
    keyreq,     \* two requests and the cache keys the handler builds for them
    auth,       \* sso_keycloack.py: the clock, _jwks_cache, the IdP and a _get_key call
    route       \* a request to a route of a RoleAPIRouter: its role check and handler

vars == <<valkey, now, loop, req, started, geo, keyreq, auth, route>>

-----------------------------------------------------------------------------
(* Bounds of the model *)

MaxTime == 2
MaxRequests == 2

\* the request slots: two requests can be in flight at once
Procs == {1, 2}

-----------------------------------------------------------------------------
(* Configuration: buildings.py lines 60-63 *)

COLLECTION == "GOOGLE/Research/open-buildings-temporal/v1"
MIN_ZOOM == 10
MAX_ZOOM == 18
\* settings.LIFESPAN_URL, in ticks of the model's clock
CACHE_TTL_HOURS == 1

\* class Band
Band == {"presence", "height"}

\* datetime.now().year when capabilities.py is imported
CurrentYear == 2026

\* app/utils/capabilities.py: the collections and their years
CAPABILITIES ==
    { [name |-> "s2_harmonized", year |-> 2017..CurrentYear],
      [name |-> "landsat",       year |-> 1985..CurrentYear] }

\* Python's optional values: None is the empty sequence, a value v is <<v>>
None == <<>>
Some(v) == <<v>>
Get(o) == o[1]

-----------------------------------------------------------------------------
(* app/tile.py: tile -> geohash of the tile's north-west corner *)

\* degrees are kept as integers in units of 2^-19 degree
Scale == 2^19

GEOHASH_PRECISION == 3

Base32 == << "0","1","2","3","4","5","6","7","8","9","b","c","d","e","f","g",
             "h","j","k","m","n","p","q","r","s","t","u","v","w","x","y","z" >>

\* lon = x_tile / n * 360.0 - 180.0, exact in units of 2^-19 degree
TileLon(x, z) == x * 360 * 2^(19 - z) - 180 * Scale

\* lat = degrees(atan(sinh(pi * (1 - 2 * y_tile / n)))): the values of the
\* formula, floor(lat * 2^19), tabulated by the tile row taken at zoom 19
TileLat(y, z) ==
    LET row == y * 2^(19 - z)
    IN  CASE row = 153600 -> 31213128
          [] row = 153602 -> 31212763
          [] row = 154112 -> 31119426
          [] row = 154624 -> 31025229
          [] row = 155136 -> 30930533
          [] row = 261632 -> 184318
          [] row = 262142 -> 719
          [] row = 262144 -> 0
          [] row = 262146 -> -720
          [] row = 262656 -> -184319
          [] row = 296960 -> -12185159

\* pygeohash.encode: interval bisection, upper half when value > mid
RECURSIVE Bisect(_, _, _, _)
Bisect(v, lo, hi, k) ==
    IF k = 0 THEN <<>>
    ELSE LET mid == (lo + hi) \div 2
         IN  IF v > mid THEN <<1>> \o Bisect(v, mid, hi, k - 1)
                        ELSE <<0>> \o Bisect(v, lo, mid, k - 1)

pgh_encode(lat, lon, precision) ==
    LET nb == 5 * precision
        lonBits == Bisect(lon, -180 * Scale, 180 * Scale, (nb + 1) \div 2)
        latBits == Bisect(lat, -90 * Scale, 90 * Scale, nb \div 2)
        bit(i) == IF i % 2 = 1 THEN lonBits[(i + 1) \div 2] ELSE latBits[i \div 2]
        ch(j) == Base32[1 + 16 * bit(5*j - 4) + 8 * bit(5*j - 3) + 4 * bit(5*j - 2)
                          + 2 * bit(5*j - 1) + bit(5*j)]
    IN  [j \in 1..precision |-> ch(j)]

\* _base32_map: the number of a symbol of the alphabet
base32_map(c) == (CHOOSE i \in 1..32 : Base32[i] = c) - 1

\* (t >> k) & 1
BitAt(t, k) == (t \div 2^k) % 2

\* the loop of _decode_c2i from character i on: a character met with an even
\* bit_length gives 3 bits to lon and 2 to lat, one met with an odd bit_length 2
\* to lon and 3 to lat
RECURSIVE decode_c2i_loop(_, _, _)
decode_c2i_loop(hashcode, i, d) ==
    IF i > Len(hashcode) THEN d
    ELSE LET t == base32_map(hashcode[i])
         IN  IF d.bit_length % 2 = 0
             THEN decode_c2i_loop(hashcode, i + 1,
                      [lon |-> d.lon * 8 + 4 * BitAt(t, 4) + 2 * BitAt(t, 2) + BitAt(t, 0),
                       lat |-> d.lat * 4 + 2 * BitAt(t, 3) + BitAt(t, 1),
                       lon_length |-> d.lon_length + 3,
                       lat_length |-> d.lat_length + 2,
                       bit_length |-> d.bit_length + 5])
             ELSE decode_c2i_loop(hashcode, i + 1,
                      [lon |-> d.lon * 4 + 2 * BitAt(t, 3) + BitAt(t, 1),
                       lat |-> d.lat * 8 + 4 * BitAt(t, 4) + 2 * BitAt(t, 2) + BitAt(t, 0),
                       lon_length |-> d.lon_length + 2,
                       lat_length |-> d.lat_length + 3,
                       bit_length |-> d.bit_length + 5])

\* variant: the first character is taken for one at an odd position
decode_c2i_OddFirst(hashcode) ==
    decode_c2i_loop(hashcode, 1,
        [lon |-> 0, lat |-> 0, lon_length |-> 0, lat_length |-> 0, bit_length |-> 5])

decode_c2i(hashcode) ==
    decode_c2i_loop(hashcode, 1,
        [lon |-> 0, lat |-> 0, lon_length |-> 0, lat_length |-> 0, bit_length |-> 0])

\* variant: no case for l = 0, the value of an empty bit string is 0.0
int_to_float_hex_NoZero(i, l) ==
    LET half == IF l = 0 THEN 0 ELSE 2^(l - 1)
    IN  IF i >= half THEN ((i - half) * 2 * Scale) \div 2^l
                     ELSE -(((half - i) * 2 * Scale) \div 2^l)

\* _int_to_float_hex: (i - half) / half as a float, here in units of 2^-19
int_to_float_hex(i, l) ==
    IF l = 0 THEN -Scale
    ELSE LET half == 2^(l - 1)
         IN  IF i >= half THEN ((i - half) * 2 * Scale) \div 2^l
                          ELSE -(((half - i) * 2 * Scale) \div 2^l)

\* variant: one bit counter for both axes
to_bbox_SharedCounter(hashcode) ==
    LET d == decode_c2i(hashcode)
        latitude_delta == (180 * Scale) \div 2^d.lon_length
        longitude_delta == (360 * Scale) \div 2^d.lon_length
        latitude == int_to_float_hex(d.lat, d.lon_length) * 90
        longitude == int_to_float_hex(d.lon, d.lon_length) * 180
    IN  [s |-> latitude, w |-> longitude,
         n |-> latitude + latitude_delta, e |-> longitude + longitude_delta]

\* to_bbox, the float.fromhex branch (the one every Python 3 takes)
to_bbox(hashcode) ==
    LET d == decode_c2i(hashcode)
        latitude_delta == (180 * Scale) \div 2^d.lat_length
        longitude_delta == (360 * Scale) \div 2^d.lon_length
        latitude == int_to_float_hex(d.lat, d.lat_length) * 90
        longitude == int_to_float_hex(d.lon, d.lon_length) * 180
    IN  [s |-> latitude, w |-> longitude,
         n |-> latitude + latitude_delta, e |-> longitude + longitude_delta]

\* 180.0 * k / (1 << l) in units of 2^-19 degree: the float product and
\* quotient are exact for these sizes, and 2^l divides range * 2^19 for l <= 21
Frac(range, k, l) == k * ((range * Scale) \div 2^l)

\* variant: the integer branch without the offset of half the range
to_bbox_fallback_NoOffset(hashcode) ==
    LET d == decode_c2i(hashcode)
    IN  [n |-> IF d.lat_length # 0 THEN Frac(180, d.lat + 1, d.lat_length) ELSE 90 * Scale,
         s |-> IF d.lat_length # 0 THEN Frac(180, d.lat, d.lat_length) ELSE -90 * Scale,
         e |-> IF d.lon_length # 0 THEN Frac(360, d.lon + 1, d.lon_length) ELSE 180 * Scale,
         w |-> IF d.lon_length # 0 THEN Frac(360, d.lon, d.lon_length) ELSE -180 * Scale]

\* to_bbox, the integer branch (lines 150-165), taken when float has no fromhex
to_bbox_fallback(hashcode) ==
    LET d == decode_c2i(hashcode)
        lat_half == 2^(d.lat_length - 1)
        lon_half == 2^(d.lon_length - 1)
    IN  [n |-> IF d.lat_length # 0
               THEN Frac(180, d.lat + 1 - lat_half, d.lat_length) ELSE 90 * Scale,
         s |-> IF d.lat_length # 0
               THEN Frac(180, d.lat - lat_half, d.lat_length) ELSE -90 * Scale,
         e |-> IF d.lon_length # 0
               THEN Frac(360, d.lon + 1 - lon_half, d.lon_length) ELSE 180 * Scale,
         w |-> IF d.lon_length # 0
               THEN Frac(360, d.lon - lon_half, d.lon_length) ELSE -180 * Scale]

\* boost of _encode_i2c: the bits of a 3-bit number moved to bits 0, 2 and 4
boost == <<0, 1, 4, 5, 16, 17, 20, 21>>

\* ret[::-1]
Reverse(seq) == [i \in 1..Len(seq) |-> seq[Len(seq) + 1 - i]]

\* the loop of _encode_i2c: n characters left to give, last character first
RECURSIVE encode_i2c_loop(_, _, _, _)
encode_i2c_loop(a, b, n, ret) ==
    IF n = 0 THEN ret
    ELSE encode_i2c_loop(b \div 4, a \div 8, n - 1,
             Append(ret, Base32[1 + ((boost[1 + (a % 8)] + 2 * boost[1 + (b % 4)]) % 32)]))

\* variant: the characters are returned in the order the loop gives them
encode_i2c_NoReverse(lat, lon, lat_length, lon_length) ==
    LET precision == (lat_length + lon_length) \div 5
    IN  IF lat_length < lon_length
        THEN encode_i2c_loop(lon, lat, precision, <<>>)
        ELSE encode_i2c_loop(lat, lon, precision, <<>>)

\* _encode_i2c
encode_i2c(lat, lon, lat_length, lon_length) ==
    LET precision == (lat_length + lon_length) \div 5
    IN  IF lat_length < lon_length
        THEN Reverse(encode_i2c_loop(lon, lat, precision, <<>>))
        ELSE Reverse(encode_i2c_loop(lat, lon, precision, <<>>))

tile2goehashBBOX(x_tile, y_tile, zoom) ==
    LET hash == pgh_encode(TileLat(y_tile, zoom), TileLon(x_tile, zoom), GEOHASH_PRECISION)
    IN  [hash |-> hash, bbox |-> to_bbox(hash)]

-----------------------------------------------------------------------------
(* buildings.py helpers *)

\* variant: the upper limit taken one zoom too far
zoom_valido_OffByOne(z) == MIN_ZOOM <= z /\ z <= MAX_ZOOM + 1

zoom_valido(z) == MIN_ZOOM <= z /\ z <= MAX_ZOOM

\* meta = next((c for c in CAPABILITIES["collections"] if c["name"] == "open_buildings"), None)
\* return not meta or year in meta.get("year", [])
ano_valido(year) ==
    LET metas == {c \in CAPABILITIES : c.name = "open_buildings"}
    IN  metas = {} \/ \E c \in metas : year \in c.year

\* path_cache = f"open_buildings_{band}_{year}/{geohash}"
PathCache(band, year, geohash) == <<"open_buildings", band, year, geohash>>

\* file_cache = f"{path_cache}/{z}/{x}_{y}.png"
FileCache(path_cache, x, y, z) == path_cache \o <<z, x, y>>

-----------------------------------------------------------------------------
(* The key-value store: valkey.Valkey.get / set (main.py line 42) *)

valkey_get(store, key) == IF key \in DOMAIN store THEN Some(store[key]) ELSE None

\* variant: APPEND, the value is added to the end of the value the key holds
valkey_set_Append(store, key, value) ==
    [k \in DOMAIN store \cup {key} |->
        IF k # key THEN store[k]
        ELSE IF k \in DOMAIN store THEN store[k] \o value ELSE value]

\* variant: SET ... NX, a key that holds a value keeps it
valkey_set_IfAbsent(store, key, value) ==
    [k \in DOMAIN store \cup {key} |-> IF k \in DOMAIN store THEN store[k] ELSE value]

valkey_set(store, key, value) ==
    [k \in DOMAIN store \cup {key} |-> IF k = key THEN value ELSE store[k]]

\* `if cached_png:` -- Python truthiness of an optional bytes value
Truthy(o) == o # None /\ Len(Get(o)) > 0

\* variant: the entry carries the start of the clock, not the time of the write
UrlEntry_Epoch(tile_url, date) == <<tile_url, 0>>

\* the value written under the bucket key: f"{tile_url}, {datetime.now()}"
UrlEntry(tile_url, date) == <<tile_url, date>>

\* app.utils.cache.getCacheUrl: None for an absent value, else both fields of
\* "<template>, <timestamp>" recovered as {"url": ..., "date": ...}
getCacheUrl(raw) ==
    IF raw = None THEN None
    ELSE Some([url |-> Get(raw)[1], date |-> Get(raw)[2]])

\* variant: the operands of the age swapped, so that every stored entry is expired
UrlExpired_Swapped(url_info, t) ==
    IF url_info = None THEN TRUE
    ELSE Get(url_info).date - t < CACHE_TTL_HOURS

\* variant: an entry whose age equals the TTL is expired
UrlExpired_Strict(url_info, t) ==
    IF url_info = None THEN TRUE
    ELSE t - Get(url_info).date >= CACHE_TTL_HOURS

\* variant: a stored entry is never used
UrlExpired_Always(url_info, t) == TRUE

\* url_info is None or datetime.now() - url_info["date"] > timedelta(hours=CACHE_TTL_HOURS)
UrlExpired(url_info, t) ==
    IF url_info = None THEN TRUE
    ELSE t - Get(url_info).date > CACHE_TTL_HOURS

-----------------------------------------------------------------------------
(* Exceptions and responses *)

Exc(type, detail) == [type |-> type, http |-> FALSE, status_code |-> 0, detail |-> detail]

HTTPException(status, detail) ==
    [type |-> "HTTPException", http |-> TRUE, status_code |-> status, detail |-> detail]

\* what a valkey call can raise
StoreErrors == { Exc("valkey.ConnectionError", "Error connecting to valkey") }

\* what an Earth Engine call (getInfo, getMapId) can raise
EEErrors == { Exc("ee.EEException", "Earth Engine request failed") }

\* what aiohttp can raise inside _fetch_png
TransportErrors == { Exc("aiohttp.ClientConnectorError", "Cannot connect to host"),
                     Exc("asyncio.TimeoutError", "") }

Content(kind, data, text) == [kind |-> kind, data |-> data, text |-> text]

PngBytes(b) == Content("bytes", b, <<>>)

\* app.errors.generate_error_image: an image rendered with the message on it
generate_error_image(msg) == Content("rendered", <<>>, msg)

StreamingResponse(content) ==
    [status_code |-> 200, media_type |-> "image/png", content |-> content]

FileResponse(path) ==
    [status_code |-> 200, media_type |-> "image/png", content |-> Content("file", <<>>, <<path>>)]

\* exception_handler.py _error_response
error_response(status_code, error) ==
    [status_code |-> status_code, media_type |-> "application/json",
     content |-> Content("json", <<>>, <<error>>)]

\* the server's answer when an exception handler itself raises
InternalServerError ==
    [status_code |-> 500, media_type |-> "text/plain",
     content |-> Content("text", <<>>, <<"Internal Server Error">>)]

\* exception_handler.py http_exception_handler
http_exception_handler(exc) == error_response(exc.status_code, exc.detail)

\* exception_handler.py generic_exception_handler: reads exc.status_code and
\* exc.detail, which only an HTTPException has (AttributeError otherwise)
generic_exception_handler(exc) ==
    IF exc.http THEN error_response(exc.status_code, exc.detail)
    ELSE InternalServerError

\* register_exception_handlers: the handler chosen for an exception that left the route
exception_handlers(exc) ==
    IF exc.type = "HTTPException" THEN http_exception_handler(exc)
    ELSE generic_exception_handler(exc)

-----------------------------------------------------------------------------
(* The upstream provider and the image download *)

\* collection.size().getInfo()
AssetCounts == {0, 1}

\* map_id["tile_fetcher"].url_format
Templates == {"map1", "map2"}

\* bodies of a download
Bodies == { <<>>, <<1>>, <<2>> }

\* statuses of a download other than 200
FailStatuses == {204, 404, 500}

NoExc == Exc("", "")

FetchOutcomes ==
    { [ok |-> TRUE, status |-> 200, body |-> b, exc |-> NoExc] : b \in Bodies }
    \cup { [ok |-> TRUE, status |-> s, body |-> <<>>, exc |-> NoExc] : s \in FailStatuses }
    \cup { [ok |-> FALSE, status |-> 0, body |-> <<>>, exc |-> e] : e \in TransportErrors }

\* variant: the status of the answer is not looked at
fetch_png_NoStatusCheck(o) ==
    IF ~o.ok THEN [raised |-> TRUE, exc |-> o.exc, value |-> <<>>]
    ELSE [raised |-> FALSE, exc |-> NoExc, value |-> o.body]

\* variant: only a server error status raises
fetch_png_ServerErrorsOnly(o) ==
    IF ~o.ok THEN [raised |-> TRUE, exc |-> o.exc, value |-> <<>>]
    ELSE IF o.status >= 500
         THEN [raised |-> TRUE,
               exc |-> HTTPException(o.status, "Imagem nao encontrada na API externa"),
               value |-> <<>>]
         ELSE [raised |-> FALSE, exc |-> NoExc, value |-> o.body]

\* buildings.py _fetch_png: the body, or the exception it raises
fetch_png(o) ==
    IF ~o.ok THEN [raised |-> TRUE, exc |-> o.exc, value |-> <<>>]
    ELSE IF o.status # 200
         THEN [raised |-> TRUE,
               exc |-> HTTPException(o.status, "Imagem nao encontrada na API externa"),
               value |-> <<>>]
         ELSE [raised |-> FALSE, exc |-> NoExc, value |-> o.body]

-----------------------------------------------------------------------------
(* Requests: GET /{x}/{y}/{z}?year=&band= *)

Input(x, y, z, year, band) == [x |-> x, y |-> y, z |-> z, year |-> year, band |-> band]

\* the requests of the model: two tiles of one geocell, at zoom MIN_ZOOM and
\* MAX_ZOOM, a year outside every year list of the capability table, and the
\* zooms next to MIN_ZOOM and MAX_ZOOM
Inputs ==
    { Input(513, 300, 10, 2024, "presence"),
      Input(131328, 76800, 18, 2024, "presence"),
      Input(513, 300, 10, 1800, "presence"),
      Input(256, 150, 9, 2024, "presence"),
      Input(262144, 153600, 19, 2024, "presence") }

NoCalls == [img_get |-> 0, url_get |-> 0, count |-> 0, mint |-> 0,
            url_set |-> 0, fetch |-> 0, img_set |-> 0]

\* a free request slot
IdleReq ==
    [pc |-> "idle", x |-> 0, y |-> 0, z |-> 0, year |-> 0, band |-> "presence",
     path_cache |-> <<>>, file_cache |-> <<>>,
     cached_png |-> None, url_info |-> None, size |-> None, tile_url |-> None,
     fetched |-> None, png |-> None, exc |-> None, escaped |-> FALSE,
     resp |-> None, calls |-> NoCalls]

Called(r, what) == [r EXCEPT !.calls[what] = @ + 1]

\* the handler returns response `resp`
Return(r, resp) == [r EXCEPT !.pc = "done", !.resp = Some(resp)]

\* exception e leaves the handler: the registered exception handler answers
Escapes(r, e) ==
    [r EXCEPT !.pc = "done", !.exc = Some(e), !.escaped = TRUE,
              !.resp = Some(exception_handlers(e))]

\* variant: the clause sends the request back to its first step
Caught_Retry(r, e, msg) == [r EXCEPT !.pc = "validate", !.exc = Some(e)]

\* variant: the clauses catch HTTPException only
Caught_HttpOnly(r, e, msg) ==
    IF e.type = "HTTPException"
    THEN Return([r EXCEPT !.exc = Some(e)], StreamingResponse(generate_error_image(msg)))
    ELSE Escapes(r, e)

\* an `except` clause of the handler catches e and returns the rendered error image
Caught(r, e, msg) ==
    Return([r EXCEPT !.exc = Some(e)], StreamingResponse(generate_error_image(msg)))

\* a response is sent as soon as its handler has returned: no other step of a
\* request is taken while a finished request waits in a slot
NoneDone == \A q \in Procs : req[q].pc # "done"

\* no run of the codec
GeoIdle ==
    [pc |-> "idle", x |-> 0, y |-> 0, z |-> 0, lat |-> 0, lon |-> 0, hash |-> <<>>,
     bbox |-> [s |-> 0, w |-> 0, n |-> 0, e |-> 0],
     ints |-> [lon |-> 0, lat |-> 0, lon_length |-> 0, lat_length |-> 0, bit_length |-> 0],
     bbox_int |-> [s |-> 0, w |-> 0, n |-> 0, e |-> 0],
     rehash |-> <<>>]

\* no pair of requests is given to the key construction
KeyIdle == [pc |-> "idle"]

\* sso_keycloack.py at import: _jwks_cache = {}, no call of _get_key yet
AuthIdle ==
    [pc |-> "idle", clock |-> 0, jwks_cache |-> << >>, published |-> {},
     kid |-> "", item |-> None, checked |-> 0, keys |-> None, fetches |-> 0,
     result |-> "none"]

\* no request has reached a route
RouteIdle == [pc |-> "idle"]

Init ==
    /\ valkey = << >>
    /\ now = 0
    /\ loop = 0
    /\ req = [p \in Procs |-> IdleReq]
    /\ started = 0
    /\ geo = GeoIdle
    /\ keyreq = KeyIdle
    /\ auth = AuthIdle
    /\ route = RouteIdle

\* a request arrives and its handler starts to run on the event loop; it takes
\* the first free slot (slots are only names of the requests in flight)
Start(p) ==
    /\ NoneDone
    /\ loop = 0
    /\ req[p].pc = "idle"
    /\ \A q \in Procs : q < p => req[q].pc # "idle"
    /\ started < MaxRequests
    /\ \E i \in Inputs :
         req' = [req EXCEPT ![p] = [IdleReq EXCEPT !.pc = "validate", !.x = i.x, !.y = i.y,
                                        !.z = i.z, !.year = i.year, !.band = i.band]]
    /\ loop' = p
    /\ started' = started + 1
    /\ UNCHANGED <<valkey, now, geo, keyreq, auth, route>>

\* lines 295-305: the two validations, then the cache keys
Validate(p) ==
    /\ loop = p
    /\ req[p].pc = "validate"
    /\ LET r == req[p]
           path == PathCache(r.band, r.year, tile2goehashBBOX(r.x, r.y, r.z).hash)
       IN  IF ~zoom_valido(r.z)
           THEN /\ req' = [req EXCEPT ![p] = Return(r, FileResponse("data/maxminzoom.png"))]
                /\ loop' = 0
           ELSE IF ~ano_valido(r.year)
           THEN /\ req' = [req EXCEPT ![p] = Return(r, FileResponse("data/notfound.png"))]
                /\ loop' = 0
           ELSE /\ req' = [req EXCEPT ![p] = [r EXCEPT !.pc = "img_check", !.path_cache = path,
                                        !.file_cache = FileCache(path, r.x, r.y, r.z)]]
                /\ loop' = p
    /\ UNCHANGED <<valkey, now, started, geo, keyreq, auth, route>>

\* lines 308-310: cached_png = valkey.get(file_cache); if cached_png: return it
ImageCacheCheck(p) ==
    /\ loop = p
    /\ req[p].pc = "img_check"
    /\ LET r == Called(req[p], "img_get")
           cached_png == valkey_get(valkey, r.file_cache)
       IN  \/ \E e \in StoreErrors :
                /\ req' = [req EXCEPT ![p] = Escapes(r, e)]
                /\ loop' = 0
           \/ /\ Truthy(cached_png)
              /\ req' = [req EXCEPT ![p] =
                           Return([r EXCEPT !.cached_png = cached_png],
                                  StreamingResponse(PngBytes(Get(cached_png))))]
              /\ loop' = 0
           \/ /\ ~Truthy(cached_png)
              /\ req' = [req EXCEPT ![p] = [r EXCEPT !.cached_png = cached_png,
                                                     !.pc = "url_check"]]
              /\ loop' = p
    /\ UNCHANGED <<valkey, now, started, geo, keyreq, auth, route>>

\* lines 313-318 and 352-353: the URL entry of the bucket and its age
UrlCacheCheck(p) ==
    /\ loop = p
    /\ req[p].pc = "url_check"
    /\ LET r == Called(req[p], "url_get")
           url_info == getCacheUrl(valkey_get(valkey, r.path_cache))
       IN  \/ \E e \in StoreErrors :
                /\ req' = [req EXCEPT ![p] = Escapes(r, e)]
                /\ loop' = 0
           \/ /\ UrlExpired(url_info, now)
              /\ req' = [req EXCEPT ![p] = [r EXCEPT !.url_info = url_info, !.pc = "count"]]
              /\ loop' = p
           \/ /\ ~UrlExpired(url_info, now)
              /\ req' = [req EXCEPT ![p] = [r EXCEPT !.url_info = url_info,
                                                     !.tile_url = Some(Get(url_info).url),
                                                     !.pc = "fetch"]]
              /\ loop' = p
    /\ UNCHANGED <<valkey, now, started, geo, keyreq, auth, route>>

\* variant: the empty collection is not recognised
NoAssets_Negative(n) == n < 0

\* line 328: collection.size().getInfo() == 0
NoAssets(n) == n = 0

\* lines 319-330: collection.size().getInfo()
CountAssets(p) ==
    /\ loop = p
    /\ req[p].pc = "count"
    /\ LET r == Called(req[p], "count")
       IN  \/ \E e \in EEErrors :
                /\ req' = [req EXCEPT ![p] = Caught(r, e, <<"Erro: ", e.detail>>)]
                /\ loop' = 0
           \/ \E n \in AssetCounts :
                IF NoAssets(n)
                THEN /\ req' = [req EXCEPT ![p] = Return([r EXCEPT !.size = Some(n)],
                                                         FileResponse("data/notfound.png"))]
                     /\ loop' = 0
                ELSE /\ req' = [req EXCEPT ![p] = [r EXCEPT !.size = Some(n), !.pc = "mint"]]
                     /\ loop' = p
    /\ UNCHANGED <<valkey, now, started, geo, keyreq, auth, route>>

\* lines 332-346: ee.data.getMapId and its url_format
MintUrl(p) ==
    /\ loop = p
    /\ req[p].pc = "mint"
    /\ LET r == Called(req[p], "mint")
       IN  \/ \E e \in EEErrors :
                /\ req' = [req EXCEPT ![p] = Caught(r, e, <<"Erro: ", e.detail>>)]
                /\ loop' = 0
           \/ \E t \in Templates :
                /\ req' = [req EXCEPT ![p] = [r EXCEPT !.tile_url = Some(t), !.pc = "url_set"]]
                /\ loop' = p
    /\ UNCHANGED <<valkey, now, started, geo, keyreq, auth, route>>

\* line 348: valkey.set(path_cache, f"{tile_url}, {datetime.now()}"), inside the try
UrlSet(p) ==
    /\ loop = p
    /\ req[p].pc = "url_set"
    /\ LET r == Called(req[p], "url_set")
       IN  \/ \E e \in StoreErrors :
                /\ req' = [req EXCEPT ![p] = Caught(r, e, <<"Erro: ", e.detail>>)]
                /\ loop' = 0
                /\ UNCHANGED valkey
           \/ /\ valkey' = valkey_set(valkey, r.path_cache, UrlEntry(Get(r.tile_url), now))
              /\ req' = [req EXCEPT ![p] = [r EXCEPT !.pc = "fetch"]]
              /\ loop' = p
    /\ UNCHANGED <<now, started, geo, keyreq, auth, route>>

\* line 356: `await _fetch_png(...)` starts the download and gives up the event loop
FetchBegin(p) ==
    /\ loop = p
    /\ req[p].pc = "fetch"
    /\ req' = [req EXCEPT ![p] = [Called(req[p], "fetch") EXCEPT !.pc = "fetching"]]
    /\ loop' = 0
    /\ UNCHANGED <<valkey, now, started, geo, keyreq, auth, route>>

\* lines 107-113 and 356-360: the download ends and the handler resumes
FetchEnd(p) ==
    /\ NoneDone
    /\ loop = 0
    /\ req[p].pc = "fetching"
    /\ \E o \in FetchOutcomes :
         LET r == [req[p] EXCEPT !.fetched = Some(o)]
             res == fetch_png(o)
         IN  IF res.raised /\ res.exc.type = "HTTPException"
             THEN /\ req' = [req EXCEPT ![p] = Caught(r, res.exc, <<"Erro: ", res.exc.detail>>)]
                  /\ loop' = 0
             ELSE IF res.raised
             THEN /\ req' = [req EXCEPT ![p] = Escapes(r, res.exc)]
                  /\ loop' = 0
             ELSE /\ req' = [req EXCEPT ![p] = [r EXCEPT !.png = Some(res.value),
                                                         !.pc = "img_set"]]
                  /\ loop' = p
    /\ UNCHANGED <<valkey, now, started, geo, keyreq, auth, route>>

\* lines 357-363: valkey.set(file_cache, png), then the tile is returned
ImageSet(p) ==
    /\ loop = p
    /\ req[p].pc = "img_set"
    /\ LET r == Called(req[p], "img_set")
       IN  \/ \E e \in StoreErrors :
                /\ req' = [req EXCEPT ![p] = Escapes(r, e)]
                /\ UNCHANGED valkey
           \/ /\ valkey' = valkey_set(valkey, r.file_cache, Get(r.png))
              /\ req' = [req EXCEPT ![p] = Return(r, StreamingResponse(PngBytes(Get(r.png))))]
    /\ loop' = 0
    /\ UNCHANGED <<now, started, geo, keyreq, auth, route>>

\* the response has been sent: the slot is free for the next request
Finish(p) ==
    /\ req[p].pc = "done"
    /\ req' = [req EXCEPT ![p] = IdleReq]
    /\ UNCHANGED <<valkey, now, loop, started, geo, keyreq, auth, route>>

\* time passes
Tick ==
    /\ NoneDone
    /\ now < MaxTime
    /\ now' = now + 1
    /\ UNCHANGED <<valkey, loop, req, started, geo, keyreq, auth, route>>

Next ==
    \/ \E p \in Procs :
         \/ Start(p)
         \/ Validate(p)
         \/ ImageCacheCheck(p)
         \/ UrlCacheCheck(p)
         \/ CountAssets(p)
         \/ MintUrl(p)
         \/ UrlSet(p)
         \/ FetchBegin(p)
         \/ FetchEnd(p)
         \/ ImageSet(p)
         \/ Finish(p)
    \/ Tick

Spec == Init /\ [][Next]_vars

-----------------------------------------------------------------------------
(* The geocell codec of app/tile.py run on its own *)

\* tiles given to tile2goehashBBOX, at zoom MIN_ZOOM and MAX_ZOOM: columns at
\* the west end, around longitude 0 and at the east end, rows around latitude
\* 59 and around the equator
GeoTiles ==
    { <<x, y, 10>> : x \in {0, 511, 512, 513, 515, 516, 1023}, y \in {300, 302, 511, 512} }
    \cup { <<x, y, 18>> : x \in {131072, 131328, 131329}, y \in {76800, 131071, 131072} }

\* the side of a geocell of precision 3, 1.40625 degree
CellSide == (360 * Scale) \div 2^8

\* coordinates given to pgh.encode: the ends of the world extent, points on
\* the sides of a geocell and next to them, points inside a geocell
GeoLats ==
    { -90 * Scale, -16 * Scale - 3, -CellSide, -1, 0, 1, CellSide, 31213128, 90 * Scale }

GeoLons ==
    { -180 * Scale, 1 - 180 * Scale, -CellSide, -1, 0, 1, CellSide, 12345678, 180 * Scale }

\* the geocells given to _decode_c2i and to_bbox: every string over the
\* alphabet up to this length, the empty one included
MaxGeocellLen == 2

GeoCells == UNION { [1..n -> {Base32[i] : i \in 1..32}] : n \in 0..MaxGeocellLen }

GeoInit ==
    /\ valkey = << >>
    /\ now = 0
    /\ loop = 0
    /\ req = [p \in Procs |-> IdleReq]
    /\ started = 0
    /\ keyreq = KeyIdle
    /\ auth = AuthIdle
    /\ route = RouteIdle
    /\ \/ \E t \in GeoTiles :
            geo = [GeoIdle EXCEPT !.pc = "tile", !.x = t[1], !.y = t[2], !.z = t[3]]
       \/ \E lat \in GeoLats, lon \in GeoLons :
            geo = [GeoIdle EXCEPT !.pc = "point", !.lat = lat, !.lon = lon]
       \/ \E h \in GeoCells :
            geo = [GeoIdle EXCEPT !.pc = "geocell", !.hash = h]

\* tile.py lines 167-176: the geocell of a tile's corner and the box of the geocell
TileToBucket ==
    /\ geo.pc = "tile"
    /\ LET b == tile2goehashBBOX(geo.x, geo.y, geo.z)
       IN  geo' = [geo EXCEPT !.pc = "bucket",
                              !.lat = TileLat(geo.y, geo.z), !.lon = TileLon(geo.x, geo.z),
                              !.hash = b.hash, !.bbox = b.bbox]
    /\ UNCHANGED <<valkey, now, loop, req, started, keyreq, auth, route>>

\* tile.py line 173: pgh.encode(lat, lon, precision=3)
EncodePoint ==
    /\ geo.pc = "point"
    /\ geo' = [geo EXCEPT !.pc = "hash",
                          !.hash = pgh_encode(geo.lat, geo.lon, GEOHASH_PRECISION)]
    /\ UNCHANGED <<valkey, now, loop, req, started, keyreq, auth, route>>

\* tile.py line 174: to_bbox(_hash)
DecodeHash ==
    /\ geo.pc = "hash"
    /\ geo' = [geo EXCEPT !.pc = "bbox", !.bbox = to_bbox(geo.hash)]
    /\ UNCHANGED <<valkey, now, loop, req, started, keyreq, auth, route>>

\* tile.py lines 137-165: _decode_c2i of a geocell and its box, by both branches
DecodeGeocell ==
    /\ geo.pc = "geocell"
    /\ geo' = [geo EXCEPT !.pc = "decoded",
                          !.ints = decode_c2i(geo.hash),
                          !.bbox = to_bbox(geo.hash),
                          !.bbox_int = to_bbox_fallback(geo.hash)]
    /\ UNCHANGED <<valkey, now, loop, req, started, keyreq, auth, route>>

\* tile.py lines 85-102: _encode_i2c of the decoded integers
ReencodeGeocell ==
    /\ geo.pc = "decoded"
    /\ geo' = [geo EXCEPT !.pc = "reencoded",
                          !.rehash = encode_i2c(geo.ints.lat, geo.ints.lon,
                                                geo.ints.lat_length, geo.ints.lon_length)]
    /\ UNCHANGED <<valkey, now, loop, req, started, keyreq, auth, route>>

GeoNext ==
    TileToBucket \/ EncodePoint \/ DecodeHash \/ DecodeGeocell \/ ReencodeGeocell

GeoSpec == GeoInit /\ [][GeoNext]_vars

-----------------------------------------------------------------------------
(* Vocabulary of the properties *)

Active(p) == req[p].pc # "idle"
Done(p) == req[p].pc = "done"
Resp(p) == Get(req[p].resp)

MaxMinZoomPlaceholder == FileResponse("data/maxminzoom.png")
NotFoundPlaceholder == FileResponse("data/notfound.png")

\* a 200 image response whose body is tile bytes, a placeholder file or a rendered error
ImageResponse(resp) ==
    /\ resp.status_code = 200
    /\ resp.media_type = "image/png"
    /\ resp.content.kind \in {"bytes", "file", "rendered"}

RenderedError(resp) ==
    /\ resp.status_code = 200
    /\ resp.media_type = "image/png"
    /\ resp.content.kind = "rendered"

\* calls to the upstream provider: asset count, URL mint, image download
UpstreamCalls(p) == req[p].calls.count + req[p].calls.mint + req[p].calls.fetch

\* calls to the cache store
StoreCalls(p) ==
    req[p].calls.img_get + req[p].calls.url_get + req[p].calls.url_set + req[p].calls.img_set

\* the years the capability table lists for a dataset
DatasetYears(name) == UNION { c.year : c \in {d \in CAPABILITIES : d.name = name} }

\* the years the capability table lists for any dataset at all
ListedYears == UNION { c.year : c \in CAPABILITIES }

\* a request with a supported zoom and a year the capability table knows
ValidRequest(p) ==
    /\ req[p].z \in 10..18
    /\ req[p].year \in ListedYears

-----------------------------------------------------------------------------
(* C1: every request to the tile endpoint ends with a 200 image response:   *)
(* tile bytes, a placeholder or a rendered error image, whatever fails, and *)
(* no exception leaves the handler.                                         *)
C1_AlwaysImage ==
    \A p \in Procs :
        Done(p) => ImageResponse(Resp(p)) /\ ~req[p].escaped

(* C2: a request with zoom outside [10, 18] gets the out-of-range           *)
(* placeholder with no cache-store call and no upstream call; a request     *)
(* with zoom 10 or 18 passes the zoom validation and goes on to the         *)
(* image-cache lookup.                                                      *)
C2_ZoomBoundary ==
    \A p \in Procs :
        /\ (Active(p) /\ (req[p].z < 10 \/ req[p].z > 18)) =>
               /\ req[p].pc \in {"validate", "done"}
               /\ StoreCalls(p) = 0
               /\ UpstreamCalls(p) = 0
               /\ Done(p) => Resp(p) = MaxMinZoomPlaceholder
        /\ (req[p].z \in {10, 18} /\ req[p].pc \notin {"idle", "validate"}) =>
               /\ Done(p) => Resp(p) # MaxMinZoomPlaceholder
               /\ req[p].year \in ListedYears =>
                      req[p].pc = "img_check" \/ req[p].calls.img_get = 1

C2_Witness ==
    \E p \in Procs :
        /\ Done(p) /\ req[p].z = 19 /\ Resp(p) = MaxMinZoomPlaceholder
        /\ started = 2

(* C3: a request whose year is not among the capability table's years for   *)
(* the dataset gets the "not found" placeholder, with no cache-store call   *)
(* and no upstream call.  Stated for the years that no list of the table    *)
(* holds, which are outside the dataset's years however these are read.     *)
C3_YearValidated ==
    \A p \in Procs :
        (Active(p) /\ req[p].z \in 10..18
                   /\ req[p].year \notin DatasetYears("open_buildings")
                   /\ req[p].year \notin ListedYears) =>
            /\ req[p].pc \in {"validate", "done"}
            /\ StoreCalls(p) = 0
            /\ UpstreamCalls(p) = 0
            /\ Done(p) => Resp(p) = NotFoundPlaceholder

(* C4: when the image tier holds a value under the tile key, the request    *)
(* returns exactly those bytes, makes no upstream call, does not read the   *)
(* URL tier and writes nothing.                                             *)
C4_ImageHit ==
    \A p \in Procs :
        (ValidRequest(p) /\ req[p].calls.img_get = 1 /\ req[p].cached_png # None) =>
            /\ Done(p)
            /\ Resp(p) = StreamingResponse(PngBytes(Get(req[p].cached_png)))
            /\ UpstreamCalls(p) = 0
            /\ req[p].calls.url_get = 0
            /\ req[p].calls.url_set = 0 /\ req[p].calls.img_set = 0

\* the URL entry stored under a bucket key, as the resolver reads it
StoredUrl(k) == getCacheUrl(valkey_get(valkey, k))

\* the age of the URL entry stored under k
Age(k) == now - Get(StoredUrl(k)).date

\* p's URL-tier lookup returns in this step (the store call did not raise)
UrlLookup(p) == req[p].pc = "url_check" /\ req'[p].pc \in {"count", "fetch"}

(* C5: once a template is stored for a bucket, a later request of that      *)
(* bucket within the TTL window makes no mint call: its URL-tier lookup is  *)
(* a hit and the stored template is the one it uses.                        *)
C5_NoSecondMint ==
    [][\A p \in Procs :
         LET k == req[p].path_cache
         IN  (req[p].pc \in {"img_check", "url_check", "count", "mint"}
                /\ StoredUrl(k) # None /\ Age(k) < CACHE_TTL_HOURS) =>
                 /\ req'[p].calls.mint <= req[p].calls.mint
                 /\ UrlLookup(p) =>
                      /\ req'[p].pc = "fetch"
                      /\ req'[p].tile_url = Some(Get(StoredUrl(k)).url)
                      /\ req'[p].calls.mint = 0]_vars

C5_Witness ==
    \E p \in Procs :
        /\ req[p].pc = "fetch" /\ req[p].z = 18
        /\ req[p].calls.mint = 0
        /\ req[p].url_info # None
        /\ req[p].tile_url = Some(Get(req[p].url_info).url)
        /\ req[p].file_cache \notin DOMAIN valkey
        /\ \E k \in DOMAIN valkey :
               Len(k) = 7 /\ SubSeq(k, 1, 4) = req[p].path_cache

(* C6 as stated: a stored URL entry is used only while now - issuedAt < TTL *)
(* and is treated as absent as soon as now - issuedAt >= TTL.               *)
C6_StrictTTL ==
    [][\A p \in Procs :
         LET k == req[p].path_cache
         IN  (UrlLookup(p) /\ StoredUrl(k) # None) =>
                 /\ req'[p].pc = "fetch" => Age(k) < CACHE_TTL_HOURS
                 /\ Age(k) >= CACHE_TTL_HOURS => req'[p].pc = "count"]_vars

(* C6 amended: a stored URL entry is used while now - issuedAt <= TTL and   *)
(* is treated as absent only when now - issuedAt > TTL; no step deletes an  *)
(* entry of the store, and a URL entry changes only when a request that     *)
(* minted a template writes it with the time of the write.                  *)
C6_TTLInclusive ==
    [][/\ \A p \in Procs :
            LET k == req[p].path_cache
            IN  (UrlLookup(p) /\ StoredUrl(k) # None) =>
                    /\ Age(k) <= CACHE_TTL_HOURS =>
                         /\ req'[p].pc = "fetch"
                         /\ req'[p].tile_url = Some(Get(StoredUrl(k)).url)
                    /\ Age(k) > CACHE_TTL_HOURS => req'[p].pc = "count"
       /\ \A k \in DOMAIN valkey :
            /\ k \in DOMAIN valkey'
            /\ (Len(k) = 4 /\ valkey'[k] # valkey[k]) =>
                 \E p \in Procs :
                     /\ req[p].pc = "url_set" /\ req[p].path_cache = k
                     /\ req[p].calls.mint = 1
                     /\ valkey'[k] = UrlEntry(Get(req[p].tile_url), now)]_vars

C6_Witness ==
    \E p \in Procs :
        /\ req[p].pc = "count"
        /\ req[p].url_info # None
        /\ now - Get(req[p].url_info).date > CACHE_TTL_HOURS
        /\ StoredUrl(req[p].path_cache) = req[p].url_info

(* C7: when the provider reports zero matching assets the request returns   *)
(* the "not found" placeholder, makes no mint and no download call and      *)
(* leaves both cache tiers as they were.                                    *)
C7_NoAssetsNoWrite ==
    [][\A p \in Procs :
         (req[p].pc = "count" /\ req'[p].size = Some(0)) =>
             /\ valkey' = valkey
             /\ req'[p].pc = "done"
             /\ req'[p].resp = Some(NotFoundPlaceholder)
             /\ req'[p].calls.mint = 0 /\ req'[p].calls.fetch = 0
             /\ req'[p].calls.url_set = 0 /\ req'[p].calls.img_set = 0]_vars

C7_Witness ==
    \E p \in Procs :
        /\ Done(p) /\ req[p].size = Some(0)
        /\ Resp(p) = NotFoundPlaceholder
        /\ req[p].file_cache \notin DOMAIN valkey
        /\ req[p].path_cache \notin DOMAIN valkey

\* the download of p ends in this step with outcome o
Downloaded(p, o) == req[p].pc = "fetching" /\ req'[p].fetched = Some(o)

(* C8: when the download answers with a non-2xx status the request returns  *)
(* a rendered error image and the image tier is not written.                *)
C8_Non2xxNotCached ==
    [][\A p \in Procs : \A o \in FetchOutcomes :
         (Downloaded(p, o) /\ o.ok /\ o.status \notin 200..299) =>
             /\ valkey' = valkey
             /\ req'[p].pc = "done"
             /\ RenderedError(Get(req'[p].resp))
             /\ req'[p].calls.img_set = 0]_vars

C8_Witness ==
    \E p \in Procs :
        /\ Done(p) /\ req[p].fetched # None
        /\ Get(req[p].fetched).ok /\ Get(req[p].fetched).status = 404
        /\ RenderedError(Resp(p))
        /\ req[p].file_cache \notin DOMAIN valkey

(* C9: a timeout or transport failure of the download gives a rendered      *)
(* error image, and the request has written neither cache tier.             *)
C9_TransportFailure ==
    \A p \in Procs :
        (req[p].fetched # None /\ ~Get(req[p].fetched).ok) =>
            /\ Done(p)
            /\ RenderedError(Resp(p))
            /\ req[p].calls.img_set = 0
            /\ req[p].calls.url_set = 0

(* C10: when the asset query or the URL mint raises, the request returns a  *)
(* rendered error image carrying the message, writes neither cache tier,    *)
(* downloads nothing and does not repeat the failed call.                   *)
C10_UpstreamRaise ==
    \A p \in Procs :
        (req[p].exc # None /\ Get(req[p].exc) \in EEErrors) =>
            /\ Done(p)
            /\ Resp(p) = StreamingResponse(
                             generate_error_image(<<"Erro: ", Get(req[p].exc).detail>>))
            /\ req[p].calls.url_set = 0 /\ req[p].calls.img_set = 0
            /\ req[p].calls.fetch = 0
            /\ req[p].calls.count = 1 /\ req[p].calls.mint <= 1

C10_Witness ==
    \E p \in Procs :
        /\ Done(p) /\ req[p].exc # None /\ Get(req[p].exc) \in EEErrors
        /\ req[p].calls.mint = 1
        /\ RenderedError(Resp(p))

-----------------------------------------------------------------------------
(* The two tiers of the store: a bucket key has 4 fields, a tile key 7 *)

ImageKeys(store) == {k \in DOMAIN store : Len(k) = 7}
UrlKeys(store) == {k \in DOMAIN store : Len(k) = 4}

(* C11: every entry of the image tier holds the complete body of a          *)
(* successful download: never a placeholder, a rendered error image or an   *)
(* empty value.                                                             *)
C11_ImageEntriesComplete ==
    \A k \in ImageKeys(valkey) :
        k[3] \in ListedYears =>
            /\ valkey[k] \in Bodies
            /\ Len(valkey[k]) > 0

(* C12: when the download succeeded and the write under the tile key        *)
(* returned, the request answers with the downloaded bytes and these are    *)
(* the value stored under the tile key when it returns.                     *)
C12_WriteThenReturn ==
    \A p \in Procs :
        (Done(p) /\ req[p].png # None /\ ~req[p].escaped) =>
            /\ Get(req[p].fetched).status = 200
            /\ Get(req[p].png) = Get(req[p].fetched).body
            /\ req[p].calls.img_set = 1
            /\ req[p].file_cache \in DOMAIN valkey
            /\ valkey[req[p].file_cache] = Get(req[p].png)
            /\ Resp(p) = StreamingResponse(PngBytes(valkey[req[p].file_cache]))

C12_Witness ==
    \E p \in Procs :
        /\ Done(p) /\ req[p].png = Some(<<2>>) /\ ~req[p].escaped
        /\ req[p].z = 18
        /\ Resp(p) = StreamingResponse(PngBytes(<<2>>))
        /\ valkey[req[p].file_cache] = <<2>>

\* p's write of the bucket key returns in this step
UrlWritten(p) == req[p].pc = "url_set" /\ req'[p].pc = "fetch"

(* C13: after a successful mint the bucket key holds the minted template    *)
(* with the time of the write, whatever was stored there before, and no     *)
(* other key of the store changes.                                          *)
C13_MintOverwrites ==
    [][\A p \in Procs :
         UrlWritten(p) =>
             /\ req[p].calls.mint = 1
             /\ getCacheUrl(valkey_get(valkey', req[p].path_cache))
                  = Some([url |-> Get(req[p].tile_url), date |-> now])
             /\ DOMAIN valkey' = DOMAIN valkey \cup {req[p].path_cache}
             /\ \A k \in DOMAIN valkey :
                    k # req[p].path_cache => valkey'[k] = valkey[k]]_vars

C13_Witness ==
    \E p \in Procs :
        /\ req[p].pc = "fetch" /\ req[p].calls.mint = 1
        /\ req[p].url_info # None
        /\ Get(req[p].url_info).url # Get(req[p].tile_url)
        /\ Get(req[p].url_info).date < now
        /\ StoredUrl(req[p].path_cache)
             = Some([url |-> Get(req[p].tile_url), date |-> now])

(* C14: an image entry is write-once: a value stored under a tile key is    *)
(* never replaced by different bytes.                                       *)
C14_ImageWriteOnce ==
    [][\A k \in ImageKeys(valkey) :
         k[3] \in ListedYears =>
             k \in DOMAIN valkey' /\ valkey'[k] = valkey[k]]_vars

\* q is in flight for the tile of p: it missed both tiers, minted a template
\* of its own and its download is pending
Overlap(p, q) ==
    /\ p # q
    /\ req[q].pc = "fetching"
    /\ req[q].file_cache = req[p].file_cache
    /\ req[q].cached_png = None
    /\ req[q].calls.mint = 1

\* p, which missed both tiers and minted, writes the tile key in this step while
\* another such request is in flight or after another request wrote the key
RacedWrite(p) ==
    /\ req[p].pc = "img_set" /\ req'[p].pc = "done" /\ ~req'[p].escaped
    /\ req[p].cached_png = None
    /\ req[p].calls.mint = 1
    /\ \/ \E q \in Procs : Overlap(p, q)
       \/ req[p].file_cache \in DOMAIN valkey

OtherStep(p) ==
    \E q \in Procs \ {p} : Start(q) \/ FetchEnd(q)

\* p is between its image-tier lookup and its URL-tier write
BeforeUrlWrite(p) == req[p].pc \in {"url_check", "count", "mint", "url_set"}

(* C16: the store round trips, the asset query and the URL mint are         *)
(* suspension points: while a request is between its image-tier lookup and  *)
(* its URL-tier write, a step of another request can run.                   *)
C16_SuspensionPoints ==
    \A p \in Procs :
        (BeforeUrlWrite(p) /\ started < MaxRequests) => ENABLED OtherStep(p)

Calls == DOMAIN NoCalls

StepOrder ==
    { <<"idle", "validate">>,
      <<"validate", "img_check">>, <<"validate", "done">>,
      <<"img_check", "url_check">>, <<"img_check", "done">>,
      <<"url_check", "count">>, <<"url_check", "fetch">>, <<"url_check", "done">>,
      <<"count", "mint">>, <<"count", "done">>,
      <<"mint", "url_set">>, <<"mint", "done">>,
      <<"url_set", "fetch">>, <<"url_set", "done">>,
      <<"fetch", "fetching">>,
      <<"fetching", "img_set">>, <<"fetching", "done">>,
      <<"img_set", "done">>,
      <<"done", "idle">> }

\* the image-tier lookup of r found nothing the handler takes for an image
ImageMiss(r) ==
    /\ r.calls.img_get = 1
    /\ IF r.cached_png = None THEN TRUE ELSE Get(r.cached_png) = <<>>

\* the URL-tier lookup of r found no entry, or one older than the TTL at time t
UrlMiss(r, t) ==
    /\ r.calls.url_get = 1
    /\ IF r.url_info = None THEN TRUE ELSE t - Get(r.url_info).date > CACHE_TTL_HOURS

-----------------------------------------------------------------------------
(* Properties of the geocell codec *)

\* the bounding box of tile (x, y, z): its corner and the corner of the next
\* tile to the south-east
TileBox(x, y, z) ==
    [w |-> TileLon(x, z), e |-> TileLon(x + 1, z),
     n |-> TileLat(y, z), s |-> TileLat(y + 1, z)]

\* box `inner` lies within box `outer`
Contains(outer, inner) ==
    /\ outer.w <= inner.w /\ inner.e <= outer.e
    /\ outer.s <= inner.s /\ inner.n <= outer.n

(* C19: for every tile with zoom in [10, 18] the box that tile2goehashBBOX  *)
(* returns contains the bounding box of the tile.                           *)
C19_BucketContainsTile ==
    (geo.pc = "bucket" /\ geo.z \in 10..18) =>
        Contains(geo.bbox, TileBox(geo.x, geo.y, geo.z))

\* twice the distance, on one axis, from v to the centre of [lo, hi]
OffCentre2(v, lo, hi) ==
    IF lo + hi >= 2 * v THEN lo + hi - 2 * v ELSE 2 * v - lo - hi

(* C20: the box decoded from the geocell of a coordinate, at the fixed      *)
(* precision, contains the coordinate, and its centre is within one cell    *)
(* width of the coordinate on each axis.                                    *)
C20_RoundTrip ==
    geo.pc \in {"bbox", "bucket"} =>
        /\ geo.bbox.w <= geo.lon /\ geo.lon <= geo.bbox.e
        /\ geo.bbox.s <= geo.lat /\ geo.lat <= geo.bbox.n
        /\ geo.bbox.e - geo.bbox.w = CellSide
        /\ geo.bbox.n - geo.bbox.s = CellSide
        /\ OffCentre2(geo.lon, geo.bbox.w, geo.bbox.e) <= 2 * CellSide
        /\ OffCentre2(geo.lat, geo.bbox.s, geo.bbox.n) <= 2 * CellSide

C20_Witness ==
    /\ geo.pc = "bbox"
    /\ geo.lon = CellSide /\ geo.bbox.e = CellSide
    /\ geo.lat = 90 * Scale /\ geo.bbox.n = 90 * Scale
    /\ geo.bbox.w = 0

\* the box of the whole world
WorldBox == [s |-> -90 * Scale, n |-> 90 * Scale, w |-> -180 * Scale, e |-> 180 * Scale]

(* C21: decoding the zero-length geocell does not fail and yields the       *)
(* full-world box: south -90, north 90, west -180, east 180.                *)
C21_EmptyGeocellIsWorld ==
    (geo.pc \in {"decoded", "reencoded"} /\ geo.hash = <<>>) => geo.bbox = WorldBox

C21_Witness ==
    /\ geo.pc = "decoded" /\ geo.hash = <<>>
    /\ geo.ints.lat_length = 0 /\ geo.ints.lon_length = 0
    /\ geo.bbox.s = -90 * Scale /\ geo.bbox.e = 180 * Scale

\* a geocell has been decoded by DecodeGeocell
Decoded == geo.pc \in {"decoded", "reencoded"}

\* ceil(5L/2) and floor(5L/2)
CeilHalf5(L) == (5 * L + 1) \div 2
FloorHalf5(L) == (5 * L) \div 2

(* C23: for every geocell of length L, _decode_c2i counts the longitude and *)
(* the latitude bits apart: lon_length = ceil(5L/2), lat_length =           *)
(* floor(5L/2), their sum is 5L, a character at an even position gives 3    *)
(* longitude and 2 latitude bits and one at an odd position 2 and 3, and    *)
(* 0 <= lat < 2^lat_length, 0 <= lon < 2^lon_length.                        *)
C23_TwoBitCounters ==
    Decoded =>
        LET L == Len(geo.hash)
            d == geo.ints
        IN  /\ d.lon_length = CeilHalf5(L)
            /\ d.lat_length = FloorHalf5(L)
            /\ d.lat_length + d.lon_length = 5 * L
            /\ d.lat >= 0 /\ d.lat < 2^d.lat_length
            /\ d.lon >= 0 /\ d.lon < 2^d.lon_length
            /\ \A k \in 1..L :
                 LET before == decode_c2i(SubSeq(geo.hash, 1, k - 1))
                     after == decode_c2i(SubSeq(geo.hash, 1, k))
                 IN  IF (k - 1) % 2 = 0
                     THEN /\ after.lon_length = before.lon_length + 3
                          /\ after.lat_length = before.lat_length + 2
                     ELSE /\ after.lon_length = before.lon_length + 2
                          /\ after.lat_length = before.lat_length + 3

C23_Witness ==
    /\ geo.pc = "decoded" /\ Len(geo.hash) = 1
    /\ geo.ints.lon_length = 3 /\ geo.ints.lat_length = 2
    /\ geo.ints.lon = 7 /\ geo.ints.lat = 3

\* the bits of a geocell, 5 for each character, the high bit first
BitsOf(h) ==
    [i \in 1..(5 * Len(h)) |-> BitAt(base32_map(h[((i - 1) \div 5) + 1]), 4 - ((i - 1) % 5))]

\* the number a sequence of bits writes, the high bit first
RECURSIVE BinValue(_)
BinValue(bits) ==
    IF bits = <<>> THEN 0
    ELSE 2 * BinValue(SubSeq(bits, 1, Len(bits) - 1)) + bits[Len(bits)]

\* standard geohash interleaving: the 1st, 3rd, 5th ... bit is a longitude
\* bit, the 2nd, 4th ... a latitude bit
StdLon(h) == BinValue([j \in 1..CeilHalf5(Len(h)) |-> BitsOf(h)[2 * j - 1]])
StdLat(h) == BinValue([j \in 1..FloorHalf5(Len(h)) |-> BitsOf(h)[2 * j]])

(* C24: _encode_i2c of what _decode_c2i returns for a string h over the     *)
(* alphabet gives h back, and the integers are those of the standard        *)
(* geohash interleaving of the 5-bit groups, longitude bit first.           *)
C24_EncodeDecodeInverse ==
    /\ Decoded => /\ geo.ints.lon = StdLon(geo.hash)
                  /\ geo.ints.lat = StdLat(geo.hash)
    /\ geo.pc = "reencoded" => geo.rehash = geo.hash

C24_Witness ==
    /\ geo.pc = "reencoded" /\ geo.hash = <<"6", "g">>
    /\ geo.rehash = <<"6", "g">>
    /\ geo.ints.lon = StdLon(<<"6", "g">>)

(* C25: the two ways to_bbox builds the box, the float.fromhex one and the *)
(* integer one, give equal south, north, west and east for every geocell,   *)
(* bit counts of zero included.                                             *)
C25_BothPathsEqual ==
    Decoded => /\ geo.bbox_int.s = geo.bbox.s
               /\ geo.bbox_int.n = geo.bbox.n
               /\ geo.bbox_int.w = geo.bbox.w
               /\ geo.bbox_int.e = geo.bbox.e

C25_Witness ==
    /\ geo.pc = "decoded" /\ geo.hash = <<"z">>
    /\ geo.ints.lat_length = 2 /\ geo.ints.lon_length = 3
    /\ geo.bbox_int = [s |-> 45 * Scale, n |-> 90 * Scale, w |-> 135 * Scale, e |-> 180 * Scale]
    /\ geo.bbox = geo.bbox_int

-----------------------------------------------------------------------------
(* The cache keys as the strings the handler builds (buildings.py lines     *)
(* 303-305), checked alone under KeySpec.  A string is a sequence of        *)
(* characters.                                                              *)

Digit == <<"0", "1", "2", "3", "4", "5", "6", "7", "8", "9">>

\* str(n) of a natural number
RECURSIVE NatStr(_)
NatStr(n) == IF n < 10 THEN <<Digit[n + 1]>> ELSE NatStr(n \div 10) \o <<Digit[(n % 10) + 1]>>

\* f"{n}" of an int
IntStr(n) == IF n < 0 THEN <<"-">> \o NatStr(-n) ELSE NatStr(n)

\* the characters of the name of a member of Band (its value is the same word)
BandName(band) ==
    IF band = "presence" THEN <<"p", "r", "e", "s", "e", "n", "c", "e">>
                         ELSE <<"h", "e", "i", "g", "h", "t">>

\* format() of a member of class Band(str, Enum): its value up to Python 3.10,
\* str() of the member, "Band.<name>", from Python 3.11 on
EnumFormats == {"value", "str"}

BandText(fmt, band) ==
    IF fmt = "value" THEN BandName(band)
                     ELSE <<"B", "a", "n", "d", ".">> \o BandName(band)

\* variant: the bucket key without the band
path_cache_text_NoBand(fmt, band, year, geohash) ==
    <<"o", "p", "e", "n", "_", "b", "u", "i", "l", "d", "i", "n", "g", "s", "_">>
        \o IntStr(year) \o <<"/">> \o geohash

\* path_cache = f"open_buildings_{band}_{year}/{geohash}"
path_cache_text(fmt, band, year, geohash) ==
    <<"o", "p", "e", "n", "_", "b", "u", "i", "l", "d", "i", "n", "g", "s", "_">>
        \o BandText(fmt, band) \o <<"_">> \o IntStr(year) \o <<"/">> \o geohash

\* variant: the tile address in front of the bucket key
file_cache_text_TileFirst(path, x, y, z) ==
    IntStr(z) \o <<"/">> \o IntStr(x) \o <<"_">> \o IntStr(y) \o <<"/">> \o path
        \o <<".", "p", "n", "g">>

\* file_cache = f"{path_cache}/{z}/{x}_{y}.png"
file_cache_text(path, x, y, z) ==
    path \o <<"/">> \o IntStr(z) \o <<"/">> \o IntStr(x) \o <<"_">> \o IntStr(y)
         \o <<".", "p", "n", "g">>

\* the years and the tiles of the requests: years of 3 and 4 digits, two tiles
\* of one geocell at zoom 10 and 18, tiles of other geocells, an unsupported zoom
KeyYears == {202, 2024, 2025}

KeyTiles == { <<513, 300, 10>>, <<131328, 76800, 18>>, <<513, 302, 10>>,
              <<515, 300, 10>>, <<256, 150, 9>> }

KeyInputs ==
    { Input(t[1], t[2], t[3], year, band) : t \in KeyTiles, year \in KeyYears, band \in Band }

\* keys of one request: lines 303-305
CacheKeys(fmt, i) ==
    LET geohash == tile2goehashBBOX(i.x, i.y, i.z).hash
        path == path_cache_text(fmt, i.band, i.year, geohash)
    IN  [geohash |-> geohash, path_cache |-> path,
         file_cache |-> file_cache_text(path, i.x, i.y, i.z)]

KeyInit ==
    /\ valkey = << >>
    /\ now = 0
    /\ loop = 0
    /\ req = [p \in Procs |-> IdleReq]
    /\ started = 0
    /\ geo = GeoIdle
    /\ auth = AuthIdle
    /\ route = RouteIdle
    /\ \E fmt \in EnumFormats, a \in KeyInputs, b \in KeyInputs :
         keyreq = [pc |-> "args", fmt |-> fmt, a |-> a, b |-> b]

\* lines 295-300: one of the two requests is answered with a placeholder
\* before any key is built
RejectKeys ==
    /\ keyreq.pc = "args"
    /\ \E i \in {keyreq.a, keyreq.b} : ~zoom_valido(i.z) \/ ~ano_valido(i.year)
    /\ keyreq' = [pc |-> "rejected", fmt |-> keyreq.fmt, a |-> keyreq.a, b |-> keyreq.b]
    /\ UNCHANGED <<valkey, now, loop, req, started, geo, auth, route>>

\* lines 303-305, for both requests
BuildKeys ==
    /\ keyreq.pc = "args"
    /\ \A i \in {keyreq.a, keyreq.b} : zoom_valido(i.z) /\ ano_valido(i.year)
    /\ keyreq' = [pc |-> "keys", fmt |-> keyreq.fmt, a |-> keyreq.a, b |-> keyreq.b,
                  ka |-> CacheKeys(keyreq.fmt, keyreq.a),
                  kb |-> CacheKeys(keyreq.fmt, keyreq.b)]
    /\ UNCHANGED <<valkey, now, loop, req, started, geo, auth, route>>

KeyNext == RejectKeys \/ BuildKeys

KeySpec == KeyInit /\ [][KeyNext]_vars

\* s is a prefix of t, and shorter than t
StrictPrefix(s, t) == Len(s) < Len(t) /\ SubSeq(t, 1, Len(s)) = s

\* the keys of both requests have been built
KeysBuilt == keyreq.pc = "keys"

(* C22: for every valid request the tile key is the bucket key followed by  *)
(* the zoom and the x and y of the tile; the bucket key is a strict prefix  *)
(* of the tile key, and no other bucket key is, so an image entry belongs   *)
(* to exactly one bucket.                                                   *)
C22_BucketPrefixesTile ==
    KeysBuilt =>
        /\ StrictPrefix(keyreq.ka.path_cache, keyreq.ka.file_cache)
        /\ SubSeq(keyreq.ka.file_cache, Len(keyreq.ka.path_cache) + 1,
                  Len(keyreq.ka.file_cache))
             = <<"/">> \o IntStr(keyreq.a.z) \o <<"/">> \o IntStr(keyreq.a.x) \o <<"_">>
                 \o IntStr(keyreq.a.y) \o <<".", "p", "n", "g">>
        /\ StrictPrefix(keyreq.kb.path_cache, keyreq.ka.file_cache)
             => keyreq.kb.path_cache = keyreq.ka.path_cache

C22_Witness ==
    /\ KeysBuilt
    /\ keyreq.a = Input(131328, 76800, 18, 2024, "height")
    /\ keyreq.b.year = 202 /\ keyreq.b.band = "height"
    /\ keyreq.kb.geohash = keyreq.ka.geohash
    /\ StrictPrefix(keyreq.ka.path_cache, keyreq.ka.file_cache)
    /\ ~StrictPrefix(keyreq.kb.path_cache, keyreq.ka.file_cache)

\* the two requests name the same band and year
SameBandYear == keyreq.a.band = keyreq.b.band /\ keyreq.a.year = keyreq.b.year

\* the two requests name the same tile
SameTile ==
    keyreq.a.x = keyreq.b.x /\ keyreq.a.y = keyreq.b.y /\ keyreq.a.z = keyreq.b.z

(* C28: two valid requests have the same tile key exactly when they have    *)
(* the same band, year, x, y and z, and the same bucket key exactly when    *)
(* they have the same band, year and geocell; the geocell depends on        *)
(* (x, y, z) alone, so requests of different bands or years share neither   *)
(* an image entry nor a URL entry.                                          *)
C28_KeysSeparateRequests ==
    KeysBuilt =>
        /\ keyreq.ka.file_cache = keyreq.kb.file_cache <=> (SameBandYear /\ SameTile)
        /\ keyreq.ka.path_cache = keyreq.kb.path_cache
             <=> (SameBandYear /\ keyreq.ka.geohash = keyreq.kb.geohash)
        /\ SameTile => keyreq.ka.geohash = keyreq.kb.geohash
        /\ ~SameBandYear => /\ keyreq.ka.file_cache # keyreq.kb.file_cache
                            /\ keyreq.ka.path_cache # keyreq.kb.path_cache

C28_Witness ==
    /\ KeysBuilt
    /\ keyreq.a = Input(513, 300, 10, 2024, "presence")
    /\ keyreq.b = Input(513, 300, 10, 2024, "height")
    /\ keyreq.ka.geohash = keyreq.kb.geohash
    /\ keyreq.ka.path_cache # keyreq.kb.path_cache
    /\ keyreq.ka.file_cache # keyreq.kb.file_cache

-----------------------------------------------------------------------------
(* The two cache tiers across requests (Spec) *)

\* p's image-tier lookup returns in this step (the store call did not raise)
ImageLookup(p) == req[p].pc = "img_check" /\ ~req'[p].escaped

(* C26: once a download has succeeded and its body is stored under the tile *)
(* key, a later request for the same tile is answered from the image tier   *)
(* with the stored bytes and without any upstream call, whatever body the   *)
(* download returned with status 200.                                       *)
C26_ServedFromImageTier ==
    [][\A p \in Procs :
         LET k == req[p].file_cache
         IN  (ImageLookup(p) /\ ValidRequest(p) /\ k \in DOMAIN valkey) =>
                 /\ req'[p].pc = "done"
                 /\ req'[p].resp = Some(StreamingResponse(PngBytes(valkey[k])))
                 /\ req'[p].calls.count + req'[p].calls.mint + req'[p].calls.fetch = 0]_vars

\* p's download ends in this step without a body to store
DownloadFails(p) == req[p].pc = "fetching" /\ req'[p].pc = "done"

\* p, which minted a template, starts its download in this step
DownloadStarts(p) == req[p].pc = "fetch" /\ req'[p].pc = "fetching" /\ req[p].calls.mint = 1

(* C27: the URL tier is written before the download starts, and a failing   *)
(* download leaves the store as it is, so the minted entry stays; the next  *)
(* request of the bucket within the TTL uses the stored template without a  *)
(* mint, and a URL entry is replaced only when its age is above the TTL.    *)
C27_FailedDownloadKeepsUrl ==
    [][/\ \A p \in Procs :
            LET k == req[p].path_cache
            IN  /\ DownloadStarts(p) =>
                     /\ StoredUrl(k) # None
                     /\ Get(StoredUrl(k)).url = Get(req[p].tile_url)
                /\ DownloadFails(p) => valkey' = valkey
                /\ (UrlLookup(p) /\ StoredUrl(k) # None /\ Age(k) <= CACHE_TTL_HOURS) =>
                     /\ req'[p].pc = "fetch"
                     /\ req'[p].tile_url = Some(Get(StoredUrl(k)).url)
                     /\ req'[p].calls.mint = 0
       /\ \A k \in UrlKeys(valkey) :
            /\ k \in DOMAIN valkey'
            /\ valkey'[k] # valkey[k] => Age(k) > CACHE_TTL_HOURS]_vars

\* a request that minted and wrote a template has ended with a failed download
\* and the template is still the one stored for its bucket
C27_Witness ==
    \E p \in Procs :
        /\ req[p].pc = "done"
        /\ req[p].calls.mint = 1 /\ req[p].calls.url_set = 1 /\ req[p].calls.fetch = 1
        /\ req[p].fetched # None /\ Get(req[p].fetched).status = 404
        /\ req[p].calls.img_set = 0
        /\ RenderedError(Resp(p))
        /\ StoredUrl(req[p].path_cache) # None
        /\ Get(StoredUrl(req[p].path_cache)).url = Get(req[p].tile_url)
        /\ ImageKeys(valkey) = {}

-----------------------------------------------------------------------------
(* Signing keys: _get_key and _jwks_cache of middleware/sso_keycloack.py,   *)
(* checked under AuthSpec.  auth.clock counts steps of ClockStep seconds;   *)
(* auth.jwks_cache maps a kid to the time() its key was stored;             *)
(* auth.published is the set of kids of the JWKS document the identity      *)
(* provider serves now.                                                     *)

CACHE_TTL == 60 * 10

\* seconds between two readings of time(): half the TTL, so that ages below,
\* equal to and above the TTL occur
ClockStep == 300

\* the clock stops after this many steps
MaxClock == 3

Kids == {"kid1", "kid2"}

\* time()
Time(t) == t * ClockStep

\* line 34: item and time() - item[0] < CACHE_TTL
CacheFresh(item, t) == item # None /\ Time(t) - Time(Get(item)) < CACHE_TTL

\* _jwks_cache.get(kid)
CacheGet(cache, kid) == IF kid \in DOMAIN cache THEN Some(cache[kid]) ELSE None

\* lines 42-43: every key of the document is stored with the time of the refresh
StoreKeys(cache, keys, t) ==
    [k \in DOMAIN cache \cup keys |-> IF k \in keys THEN t ELSE cache[k]]

AuthInit ==
    /\ valkey = << >>
    /\ now = 0
    /\ loop = 0
    /\ req = [p \in Procs |-> IdleReq]
    /\ started = 0
    /\ geo = GeoIdle
    /\ keyreq = KeyIdle
    /\ route = RouteIdle
    /\ \E pub \in SUBSET Kids : auth = [AuthIdle EXCEPT !.published = pub]

\* lines 31-35: _get_key(kid) is called; a fresh entry is returned at once,
\* otherwise the JWKS request is sent and the call waits for the answer
GetKey ==
    /\ auth.pc \in {"idle", "returned"}
    /\ \E kid \in Kids :
         LET item == CacheGet(auth.jwks_cache, kid)
             call == [auth EXCEPT !.kid = kid, !.item = item, !.checked = auth.clock,
                                  !.keys = None, !.fetches = 0]
         IN  IF CacheFresh(item, auth.clock)
             THEN auth' = [call EXCEPT !.pc = "returned", !.result = "key"]
             ELSE auth' = [call EXCEPT !.pc = "fetching", !.fetches = 1,
                                       !.result = "none"]
    /\ UNCHANGED <<valkey, now, loop, req, started, geo, keyreq, route>>

\* lines 38-47: the document arrives, its keys are stored, the kid is looked up
JwksFetched ==
    /\ auth.pc = "fetching"
    /\ LET keys == auth.published
           cache == StoreKeys(auth.jwks_cache, keys, auth.clock)
       IN  auth' = [auth EXCEPT !.pc = "returned", !.keys = Some(keys),
                                !.jwks_cache = cache,
                                !.result = IF auth.kid \notin DOMAIN cache
                                           THEN "401" ELSE "key"]
    /\ UNCHANGED <<valkey, now, loop, req, started, geo, keyreq, route>>

\* lines 38-40: the request to the identity provider fails (timeout, refused
\* connection, a body that is not the document): the exception leaves _get_key
JwksFails ==
    /\ auth.pc = "fetching"
    /\ auth' = [auth EXCEPT !.pc = "returned", !.result = "error"]
    /\ UNCHANGED <<valkey, now, loop, req, started, geo, keyreq, route>>

\* the identity provider rotates its keys: it publishes another set of kids
RotateKeys ==
    /\ \E pub \in SUBSET Kids :
         /\ pub # auth.published
         /\ auth' = [auth EXCEPT !.published = pub]
    /\ UNCHANGED <<valkey, now, loop, req, started, geo, keyreq, route>>

\* time passes
ClockTick ==
    /\ auth.clock < MaxClock
    /\ auth' = [auth EXCEPT !.clock = @ + 1]
    /\ UNCHANGED <<valkey, now, loop, req, started, geo, keyreq, route>>

AuthNext == GetKey \/ JwksFetched \/ JwksFails \/ RotateKeys \/ ClockTick

AuthSpec == AuthInit /\ [][AuthNext]_vars

\* the call of _get_key has returned a key
KeyReturned == auth.pc = "returned" /\ auth.result = "key"

\* the entry the call found for its kid was younger than CACHE_TTL
FoundFresh == auth.item # None /\ Time(auth.checked) - Time(Get(auth.item)) < CACHE_TTL

\* the kid is in the document fetched during the call
InFetchedDocument == auth.keys # None /\ auth.kid \in Get(auth.keys)

(* C29: _get_key returns a key for a kid only if the cached entry of the    *)
(* kid is younger than CACHE_TTL or the kid is in the JWKS document fetched *)
(* during the call; a kid the identity provider no longer publishes is      *)
(* answered with 401 once its entry has expired; a hit younger than         *)
(* CACHE_TTL causes no fetch.                                               *)
C29_KeyOnlyIfFreshOrPublished ==
    /\ KeyReturned => (FoundFresh \/ InFetchedDocument)
    /\ (auth.pc = "returned" /\ ~FoundFresh /\ auth.keys # None /\ ~InFetchedDocument)
         => auth.result = "401"
    /\ (auth.pc \in {"returned", "fetching"} /\ FoundFresh) => auth.fetches = 0

-----------------------------------------------------------------------------
(* Role checks: RoleAPIRouter (auth/role_route.py) and RequireRoles         *)
(* (auth/check_rules.py), checked under RoleSpec.  A route is declared with *)
(* a `roles` argument, then a request reaches it with or without            *)
(* request.state.roles.                                                     *)

AllRoles == {"gee-integrator-api.user_access", "admin", "offline_access", "uma_authorization"}

\* the `roles` argument of a route decorator: absent (None), empty, or a list
RoleArgs ==
    { None, Some(<<>>), Some(<<"gee-integrator-api.user_access">>), Some(<<"admin">>),
      Some(<<"gee-integrator-api.user_access", "admin">>) }

\* request.state.roles: not set (no token was decoded), or the roles of the token
StateRoles == {None} \cup { Some(rs) : rs \in SUBSET AllRoles }

\* variant: a request without any role passes
HasAllowedRole_EmptyPasses(user_roles, allowed) ==
    user_roles = {} \/ \E i \in 1..Len(allowed) : allowed[i] \in user_roles

\* check_rules.py line 9: any(role in user_roles for role in allowed)
HasAllowedRole(user_roles, allowed) ==
    \E i \in 1..Len(allowed) : allowed[i] \in user_roles

\* check_rules.py line 8: getattr(request.state, "roles", [])
UserRoles(state_roles) == IF state_roles = None THEN {} ELSE Get(state_roles)

\* role_route.py _with_roles: the dependencies of the route; `if roles:` is
\* false for None and for an empty list
with_roles(deps, roles) ==
    IF roles # None /\ Len(Get(roles)) > 0
    THEN Append(deps, [allowed |-> Get(roles)])
    ELSE deps

RoleInit ==
    /\ valkey = << >>
    /\ now = 0
    /\ loop = 0
    /\ req = [p \in Procs |-> IdleReq]
    /\ started = 0
    /\ geo = GeoIdle
    /\ keyreq = KeyIdle
    /\ auth = AuthIdle
    /\ \E roles \in RoleArgs, sr \in StateRoles :
         route = [pc |-> "declare", roles |-> roles, state_roles |-> sr,
                  dependencies |-> <<>>, handler_ran |-> FALSE, status_code |-> 0]

\* role_route.py lines 25-28: the decorator is applied when the module is imported
DeclareRoute ==
    /\ route.pc = "declare"
    /\ route' = [route EXCEPT !.pc = "request",
                              !.dependencies = with_roles(<<>>, route.roles)]
    /\ UNCHANGED <<valkey, now, loop, req, started, geo, keyreq, auth>>

\* check_rules.py lines 7-13: the dependencies of the route run before its
\* handler; _checker raises 403 when no allowed role is among the user's
CheckRoles ==
    /\ route.pc = "request"
    /\ LET user_roles == UserRoles(route.state_roles)
           denied == \E i \in 1..Len(route.dependencies) :
                         ~HasAllowedRole(user_roles, route.dependencies[i].allowed)
       IN  IF denied
           THEN route' = [route EXCEPT !.pc = "rejected", !.status_code = 403]
           ELSE route' = [route EXCEPT !.pc = "handler"]
    /\ UNCHANGED <<valkey, now, loop, req, started, geo, keyreq, auth>>

\* the handler of the route runs
RunHandler ==
    /\ route.pc = "handler"
    /\ route' = [route EXCEPT !.pc = "done", !.handler_ran = TRUE, !.status_code = 200]
    /\ UNCHANGED <<valkey, now, loop, req, started, geo, keyreq, auth>>

RoleNext == DeclareRoute \/ CheckRoles \/ RunHandler

RoleSpec == RoleInit /\ [][RoleNext]_vars

\* the request has been let through to the handler, or the handler has run
HandlerReached == route.pc \in {"handler", "done"}

\* the request has passed the dependencies of the route, one way or the other
RoleChecked == route.pc \in {"handler", "done", "rejected"}

\* the request carries one of the roles the route lists
CarriesListedRole ==
    /\ route.roles # None
    /\ route.state_roles # None
    /\ \E i \in 1..Len(Get(route.roles)) : Get(route.roles)[i] \in Get(route.state_roles)

\* the request was answered 403 and the handler did not run
Rejected403 == route.pc = "rejected" /\ route.status_code = 403 /\ ~route.handler_ran

(* C30: a route declared with a list of roles runs its handler only when   *)
(* the request carries at least one of the listed roles; a request with no  *)
(* roles or none of the listed ones is answered 403 and the handler never   *)
(* runs.  A route declared without roles (no argument, or a list that names *)
(* none) gets no role check.                                                *)
C30_NonEmptyRolesChecked ==
    /\ route.handler_ran => route.pc = "done"
    /\ RoleChecked =>
        IF route.roles # None /\ Get(route.roles) # <<>>
        THEN /\ HandlerReached <=> CarriesListedRole
             /\ ~CarriesListedRole <=> Rejected403
        ELSE HandlerReached /\ route.dependencies = <<>>

C30_Witness ==
    /\ Rejected403
    /\ route.roles = Some(<<"gee-integrator-api.user_access">>)
    /\ route.state_roles = Some({"offline_access", "uma_authorization"})

====
